---- MODULE Spec2Model ----
(***************************************************************************)
(* MusicAgent backend: the user store (users collection with its unique    *)
(* indexes), the Spotify token lifecycle (exchange, expiry test, refresh,  *)
(* persist) and the ingestion pipeline that writes snapshots.              *)
(*                                                                         *)
(* Every request handler is split at its awaits and upstream calls, so     *)
(* that requests interleave the way the asyncio server (and several        *)
(* workers on one database) lets them.                                     *)
(***************************************************************************)
EXTENDS Integers, Sequences, FiniteSets, TLC

\* ------------------------------------------------------------------ bounds
MaxTime == 2
NumCreateReqs == 2
MaxExchanges == 2
MaxDeletes == 1
MaxIngests == 2
MaxTracks == 250
MaxConnects == 3

\* ------------------------------------------------------- program constants
BatchSize == 100
HTTP_200_OK == 200
HTTP_201_CREATED == 201
HTTP_400_BAD_REQUEST == 400
HTTP_401_UNAUTHORIZED == 401
HTTP_404_NOT_FOUND == 404
HTTP_409_CONFLICT == 409
HTTP_422_UNPROCESSABLE_ENTITY == 422
HTTP_500_INTERNAL_SERVER_ERROR == 500
MinListLimit == 1
MaxListLimit == 500

\* ------------------------------------------------------------------ values
\* Python/JSON values of the token payloads and of the expiry field. All
\* values share one record shape so that any two of them can be compared.
\*   kind "null"     None
\*   kind "int"      the integer n
\*   kind "str"      the string s
\*   kind "isostr"   a string that spells an ISO-8601 timestamp: wall clock n
\*                   followed by the suffix s ("", "Z", "+00:00", "+01:00", ...)
\*   kind "datetime" a datetime with wall clock n; s is its tzinfo, "" when naive
JNull == [kind |-> "null", n |-> 0, s |-> ""]
JInt(k) == [kind |-> "int", n |-> k, s |-> ""]
JStr(x) == [kind |-> "str", n |-> 0, s |-> x]
JIso(wall, suffix) == [kind |-> "isostr", n |-> wall, s |-> suffix]
JDate(wall, tz) == [kind |-> "datetime", n |-> wall, s |-> tz]

\* Python truthiness of a value (`if x:` / `not x` / `x or 0`).
Truthy(v) ==
    CASE v.kind = "null" -> FALSE
      [] v.kind = "int" -> v.n # 0
      [] v.kind = "str" -> v.s # ""
      [] OTHER -> TRUE

\* dict.get(key): the value, None when the key is absent.
Get(d, key) == IF key \in DOMAIN d THEN d[key] ELSE JNull

EmptyDoc == [k \in {} |-> JNull]

\* {**a, **b}: b's keys win.
Merge(a, b) == [k \in DOMAIN a \cup DOMAIN b |-> IF k \in DOMAIN b THEN b[k] ELSE a[k]]

\* A MongoDB projection that excludes fields.
Project(doc, excluded) == [k \in DOMAIN doc \ excluded |-> doc[k]]

\* A MongoDB projection that includes fields.
ProjectOnly(doc, included) == [k \in DOMAIN doc \cap included |-> doc[k]]

\* Hours east of UTC of a tzinfo / ISO offset suffix.
UtcOffset(tz) ==
    CASE tz = "+01:00" -> 1
      [] tz = "-01:00" -> 0 - 1
      [] OTHER -> 0

\* ------------------------------------------------------------- identifiers
\* A user id string is modelled by a number: k >= 1 is the 24-hex-digit string
\* of the ObjectId k, 0 is a string that is no ObjectId.
MaxIds == NumCreateReqs
ObjectIds == 1..MaxIds
BadId == 0
NoOid == 0 - 1
UserIdStrings == ObjectIds \cup {BadId}

_to_object_id(user_id) == IF user_id \in ObjectIds THEN user_id ELSE NoOid

Usernames == {"ann", "bob"}
Emails == {"a@x", "b@x"}
AccessTokens == {"A1", "A2"}
RefreshTokens == {"R1", "R2"}

VARIABLES
    users,      \* the users collection: ObjectId -> document
    snapshots,  \* the spotify_snapshots collection, in insertion order
    now,        \* the UTC clock
    nextId,     \* the next ObjectId the driver generates
    creq,       \* the POST /users requests
    ing,        \* the POST /auth/spotify/ingest request in flight
    nExchange, nDelete, nIngest,   \* how many of each request were made
    resp,       \* what the last call of a user-store accessor returned
    probe,      \* an expiry value and what _is_expired answered for it
    _mongo_client, _database,   \* the module globals of core/database.py
    dbcall      \* the last call on the database handle and how it ended

\* The state of core/database.py.
dbvars == <<_mongo_client, _database, dbcall>>

vars == <<users, snapshots, now, nextId, creq, ing, nExchange, nDelete, nIngest, resp, probe, dbvars>>

\* ---------------------------------------------------------- the user store
\* A projection that forgets to exclude the password hash.
ProjectionWithHash == {"spotify"}

PUBLIC_USER_PROJECTION == {"hashed_password", "spotify"}

\* find_one({"_id": oid}) without projection; EmptyDoc stands for None.
FindById(coll, oid) == IF oid \in DOMAIN coll THEN coll[oid] ELSE EmptyDoc

\* The ids of the documents whose field `key` equals `value`.
IdsWhere(coll, key, value) == {i \in DOMAIN coll : coll[i][key] = value}

\* find_one({key: value}) without projection: the first match in natural order.
FindByField(coll, key, value) ==
    LET ids == IdsWhere(coll, key, value)
    IN  IF ids = {} THEN EmptyDoc
        ELSE coll[CHOOSE i \in ids : \A j \in ids : i <= j]

\* str(ObjectId): the id string of an ObjectId (see the encoding above).
StrOfOid(oid) == oid

\* _serialize_user: None for a missing document, else the document with its
\* _id turned into its string.
_serialize_user(document) ==
    IF DOMAIN document = {} THEN EmptyDoc
    ELSE [document EXCEPT !["_id"] = StrOfOid(@)]

\* A users collection without unique indexes: no write raises DuplicateKeyError.
NoUniqueIndexes(coll, oid, username, email) == FALSE

\* The unique indexes of create_user_indexes: would inserting or updating a
\* document to (username, email) under id `oid` raise DuplicateKeyError?
create_user_indexes(coll, oid, username, email) ==
    \E i \in DOMAIN coll \ {oid} :
        coll[i].username = username \/ coll[i].email = email

get_user_by_id(coll, user_id) ==
    LET object_id == _to_object_id(user_id)
    IN  IF object_id = NoOid THEN EmptyDoc
        ELSE _serialize_user(Project(FindById(coll, object_id), PUBLIC_USER_PROJECTION))

get_user_by_username(coll, username, include_password_hash) ==
    LET projection == IF include_password_hash THEN {} ELSE PUBLIC_USER_PROJECTION
    IN  _serialize_user(Project(FindByField(coll, "username", username), projection))

get_user_by_email(coll, email, include_password_hash) ==
    LET projection == IF include_password_hash THEN {} ELSE PUBLIC_USER_PROJECTION
    IN  _serialize_user(Project(FindByField(coll, "email", email), projection))

\* list_users: the first `limit` documents in natural (insertion) order.
list_users(coll, limit) ==
    LET ids == {i \in DOMAIN coll : Cardinality({j \in DOMAIN coll : j < i}) < limit}
    IN  {_serialize_user(Project(coll[i], PUBLIC_USER_PROJECTION)) : i \in ids}

\* _hash_password_for_now: the SHA-256 hex digest of the password.
_hash_password_for_now(password) == <<"sha256", password>>

\* get_user_spotify_auth: the embedded spotify sub-document, EmptyDoc for None.
get_user_spotify_auth(coll, user_id) ==
    LET object_id == _to_object_id(user_id)
        doc == ProjectOnly(FindById(coll, object_id), {"_id", "spotify"})
    IN  IF object_id = NoOid THEN EmptyDoc
        ELSE IF DOMAIN doc = {} THEN EmptyDoc
        ELSE IF "spotify" \notin DOMAIN doc THEN EmptyDoc
        ELSE doc.spotify

\* ------------------------------------------------------------ token persist
\* What the driver stores for a value: an aware datetime is stored as its UTC
\* instant and read back naive (the client is not tz_aware).
ToBson(v) == IF v.kind = "datetime" THEN JDate(v.n - UtcOffset(v.s), "") ELSE v

\* _utc_now(): the aware current instant.
_utc_now(t) == JDate(t, "+00:00")

\* int(token_payload.get("expires_in", 0) or 0)
ExpiresInOf(token_payload) ==
    LET v == Get(token_payload, "expires_in")
    IN  IF Truthy(v) THEN v.n ELSE 0

\* now + timedelta(seconds=expires_in) if expires_in > 0 else None
ExpiresAtOf(token_payload, t) ==
    IF ExpiresInOf(token_payload) > 0
    THEN JDate(t + ExpiresInOf(token_payload), "+00:00")
    ELSE JNull

\* The refresh token of the payload put into the updates without the test.
RefreshTokenAlways(token_payload) ==
    [refresh_token |-> Get(token_payload, "refresh_token")]

\* if refresh_token: updates["spotify.refresh_token"] = refresh_token
RefreshTokenUpdate(token_payload) ==
    IF Truthy(Get(token_payload, "refresh_token"))
    THEN [refresh_token |-> Get(token_payload, "refresh_token")]
    ELSE EmptyDoc

\* {k: v for k, v in updates.items() if v is not None}
DropNone(updates) ==
    [k \in {x \in DOMAIN updates : updates[x].kind # "null"} |-> updates[k]]

\* The "spotify.*" keys of `updates`, as handed to $set.
SpotifyUpdates(token_payload, t) ==
    LET updates == Merge([access_token |-> Get(token_payload, "access_token"),
                          token_type |-> Get(token_payload, "token_type"),
                          scope |-> Get(token_payload, "scope"),
                          expires_in |-> JInt(ExpiresInOf(token_payload)),
                          expires_at |-> ExpiresAtOf(token_payload, t),
                          updated_at |-> _utc_now(t)],
                         RefreshTokenUpdate(token_payload))
        kept == DropNone(updates)
    IN  [k \in DOMAIN kept |-> ToBson(kept[k])]

\* update_one({"_id": oid}, {"$set": ...}) with dotted "spotify.*" paths: the
\* sub-document is created when missing, other keys of it are left alone.
SetSpotify(doc, sp, t) ==
    Merge(doc, [spotify |-> Merge(IF "spotify" \in DOMAIN doc THEN doc.spotify ELSE EmptyDoc, sp),
                updated_at |-> ToBson(_utc_now(t))])

\* save_user_spotify_tokens: the users collection after the call.
save_user_spotify_tokens(coll, user_id, token_payload, t) ==
    LET object_id == _to_object_id(user_id)
    IN  IF object_id = NoOid \/ object_id \notin DOMAIN coll THEN coll
        ELSE [coll EXCEPT ![object_id] = SetSpotify(@, SpotifyUpdates(token_payload, t), t)]

\* save_user_spotify_tokens: the value it returns.
SaveTokensReturn(coll, user_id, token_payload, t) ==
    LET object_id == _to_object_id(user_id)
        after == save_user_spotify_tokens(coll, user_id, token_payload, t)
    IN  IF object_id = NoOid \/ object_id \notin DOMAIN coll THEN EmptyDoc
        ELSE _serialize_user(Project(FindById(after, object_id), PUBLIC_USER_PROJECTION))

\* ------------------------------------------------------------------ expiry
\* datetime.fromisoformat(expires_at.replace("Z", "+00:00")): the datetime, or
\* JNull for ValueError.
IsoOffsets == {"", "+00:00", "+01:00", "-01:00"}

ParseIso(v) ==
    LET suffix == IF v.s = "Z" THEN "+00:00" ELSE v.s
    IN  IF v.kind = "isostr" /\ suffix \in IsoOffsets THEN JDate(v.n, suffix) ELSE JNull

\* An expiry test that lets the instant equal to now pass as not expired.
IsExpiredStrictlyPast(expires_at, t) ==
    IF ~Truthy(expires_at) THEN TRUE
    ELSE IF expires_at.kind \in {"str", "isostr"} /\ ParseIso(expires_at).kind = "null" THEN TRUE
    ELSE IF expires_at.kind \notin {"str", "isostr", "datetime"} THEN TRUE
    ELSE LET expires_dt == IF expires_at.kind = "datetime" THEN expires_at
                           ELSE ParseIso(expires_at)
         IN  expires_dt.n - UtcOffset(expires_dt.s) < t

_is_expired(expires_at, t) ==
    IF ~Truthy(expires_at) THEN TRUE
    ELSE IF expires_at.kind \in {"str", "isostr"} /\ ParseIso(expires_at).kind = "null" THEN TRUE
    ELSE IF expires_at.kind \notin {"str", "isostr", "datetime"} THEN TRUE
    ELSE LET expires_dt == IF expires_at.kind = "datetime" THEN expires_at
                           ELSE ParseIso(expires_at)
             aware == IF expires_dt.s = "" THEN JDate(expires_dt.n, "+00:00") ELSE expires_dt
         IN  aware.n - UtcOffset(aware.s) <= t

\* ------------------------------------------------------- upstream provider
\* What the provider can answer. A key of a payload may be absent or null.
Opt(key, o) == IF o = <<>> THEN EmptyDoc ELSE [k \in {key} |-> o[1]]

AccessOpts == {<<>>, <<JNull>>} \cup {<<JStr(a)>> : a \in AccessTokens}
RefreshOpts == {<<>>, <<JNull>>, <<JStr("")>>} \cup {<<JStr(r)>> : r \in RefreshTokens}
ExpiresOpts == {<<>>, <<JNull>>} \cup {<<JInt(e)>> : e \in 0..MaxTime}

TokenPayload(a, r, e) ==
    Merge(Merge(Merge(Opt("access_token", a), Opt("refresh_token", r)), Opt("expires_in", e)),
          [token_type |-> JStr("Bearer"), scope |-> JStr("user-top-read")])

TokenPayloads == {TokenPayload(a, r, e) : a \in AccessOpts, r \in RefreshOpts, e \in ExpiresOpts}

\* The answers to a code exchange and to a refresh met by the ingestion runs:
\* each key present or missing.
ExchangePayloads ==
    {TokenPayload(a, r, e) : a \in {<<JNull>>, <<JStr("A1")>>},
                             r \in {<<>>, <<JStr("R1")>>},
                             e \in {<<>>, <<JInt(1)>>}}
\* The usual answer to a code exchange: both tokens and a lifetime.
LinkPayload == TokenPayload(<<JStr("A1")>>, <<JStr("R1")>>, <<JInt(1)>>)

RefreshPayloads ==
    {TokenPayload(a, r, e) : a \in {<<JNull>>, <<JStr("A2")>>},
                             r \in {<<>>, <<JStr("R2")>>},
                             e \in {<<>>, <<JInt(1)>>}}

\* response.status_code >= 400: the status the provider rejects a request with.
UpstreamErrors == {HTTP_500_INTERNAL_SERVER_ERROR + 3}

\* ------------------------------------------------------------------- state
IdleCreate ==
    [pc |-> "idle", username |-> "", email |-> "", oid |-> NoOid,
     status |-> 0, hit |-> "none", resp |-> EmptyDoc]

IdleIngest ==
    [pc |-> "idle", user_id |-> BadId, access_token |-> JNull, refresh_token |-> JNull,
     payload |-> EmptyDoc, persisted |-> JNull,
     refreshed |-> FALSE, issued |-> JNull, linked |-> FALSE, auth |-> EmptyDoc,
     loaded_at |-> 0,
     top_tracks |-> <<>>, top_artists |-> <<>>, recently_played |-> <<>>,
     track_ids |-> <<>>, i |-> 0, audio_features |-> <<>>, calls |-> <<>>,
     status |-> 0, snapshot_id |-> 0, snaps_at_start |-> 0]

\* A call of a user-store accessor: the accessor, the include_password_hash
\* flag and the payload (token payload, update map) it was called with, the
\* documents it returned (none for None), and the status of the route when
\* the call came through one that rejects.
Returned(op, user_id, include_password_hash, token_payload, docs) ==
    [op |-> op, user_id |-> user_id, include_password_hash |-> include_password_hash,
     token_payload |-> token_payload, docs |-> {d \in docs : DOMAIN d # {}},
     status |-> 0]

NoResp == Returned("", BadId, FALSE, EmptyDoc, {})
NoProbe == [expires_at |-> JNull, asked |-> FALSE, at |-> 0, result |-> FALSE]

\* A client or database object is modelled by the number of the connect
\* attempt that created it; NoHandle is None.
NoHandle == 0

\* The last call on the handle: its name, whether it returned a handle or
\* raised, the handle, the number of connection attempts so far, and whether
\* a ping has succeeded with no close since.
NoDbCall == [op |-> "", result |-> "", handle |-> NoHandle, attempts |-> 0, pinged |-> FALSE]

Init ==
    /\ users = [i \in {} |-> EmptyDoc]
    /\ snapshots = <<>>
    /\ now = 0
    /\ nextId = 1
    /\ creq = [r \in 1..NumCreateReqs |-> IdleCreate]
    /\ ing = IdleIngest
    /\ nExchange = 0
    /\ nDelete = 0
    /\ nIngest = 0
    /\ resp = NoResp
    /\ probe = NoProbe
    /\ _mongo_client = NoHandle
    /\ _database = NoHandle
    /\ dbcall = NoDbCall

\* The clock advances.
Tick ==
    /\ now < MaxTime
    /\ now' = now + 1
    /\ UNCHANGED <<users, snapshots, nextId, creq, ing, nExchange, nDelete, nIngest, resp, probe, dbvars>>

\* ------------------------------------------------------------- POST /users
\* create_user_route up to its first await: get_user_by_username.
CreateLookupUsername(r, username, email) ==
    /\ creq[r].pc = "idle"
    /\ creq[r].status = 0
    /\ LET existing_username == get_user_by_username(users, username, FALSE)
       IN  creq' = [creq EXCEPT ![r] =
                IF DOMAIN existing_username # {}
                THEN [@ EXCEPT !.pc = "done", !.username = username, !.email = email,
                               !.status = HTTP_409_CONFLICT, !.hit = "preflight"]
                ELSE [@ EXCEPT !.pc = "lookup_email", !.username = username, !.email = email]]
    /\ UNCHANGED <<users, snapshots, now, nextId, ing, nExchange, nDelete, nIngest, resp, probe, dbvars>>

\* get_user_by_email.
CreateLookupEmail(r) ==
    /\ creq[r].pc = "lookup_email"
    /\ LET existing_email == get_user_by_email(users, creq[r].email, FALSE)
       IN  creq' = [creq EXCEPT ![r] =
                IF DOMAIN existing_email # {}
                THEN [@ EXCEPT !.pc = "done", !.status = HTTP_409_CONFLICT, !.hit = "preflight"]
                ELSE [@ EXCEPT !.pc = "insert"]]
    /\ UNCHANGED <<users, snapshots, now, nextId, ing, nExchange, nDelete, nIngest, resp, probe, dbvars>>

\* The document create_user inserts.
UserToInsert(oid, username, email, t) ==
    [_id |-> oid, username |-> username, first_name |-> "First", last_name |-> "Last",
     email |-> email, hashed_password |-> _hash_password_for_now("pw"),
     created_at |-> ToBson(_utc_now(t)), updated_at |-> ToBson(_utc_now(t))]

\* create_user: users.insert_one; DuplicateKeyError becomes 409.
CreateInsert(r) ==
    /\ creq[r].pc = "insert"
    /\ nextId \in ObjectIds
    /\ IF create_user_indexes(users, nextId, creq[r].username, creq[r].email)
       THEN /\ creq' = [creq EXCEPT ![r] =
                    [@ EXCEPT !.pc = "done", !.status = HTTP_409_CONFLICT, !.hit = "index"]]
            /\ UNCHANGED <<users, nextId, resp, probe, dbvars>>
       ELSE /\ users' = [i \in DOMAIN users \cup {nextId} |->
                            IF i = nextId
                            THEN UserToInsert(nextId, creq[r].username, creq[r].email, now)
                            ELSE users[i]]
            /\ nextId' = nextId + 1
            /\ creq' = [creq EXCEPT ![r] = [@ EXCEPT !.pc = "find", !.oid = nextId]]
    /\ UNCHANGED <<snapshots, now, ing, nExchange, nDelete, nIngest, resp, probe, dbvars>>

\* create_user: users.find_one of the inserted id, then the route's answer.
CreateFind(r) ==
    /\ creq[r].pc = "find"
    /\ LET created == _serialize_user(Project(FindById(users, creq[r].oid), PUBLIC_USER_PROJECTION))
       IN  creq' = [creq EXCEPT ![r] =
                IF DOMAIN created = {}
                THEN [@ EXCEPT !.pc = "done", !.status = HTTP_500_INTERNAL_SERVER_ERROR]
                ELSE [@ EXCEPT !.pc = "done", !.status = HTTP_201_CREATED, !.resp = created]]
    /\ UNCHANGED <<users, snapshots, now, nextId, ing, nExchange, nDelete, nIngest, resp, probe, dbvars>>

\* ------------------------------------------------------ PUT /users/{user_id}
\* update_data maps a field to <<v>>, or to <<>> for None.
\* {k: v for k, v in update_data.items() if v is not None}, less _id, created_at.
UpdatesOf(update_data) ==
    LET kept == {k \in DOMAIN update_data : Len(update_data[k]) > 0} \ {"_id", "created_at"}
    IN  [k \in kept |-> update_data[k][1]]

\* update_one raises DuplicateKeyError: the new username or email is taken.
UpdateDuplicateKey(coll, user_id, update_data) ==
    LET object_id == _to_object_id(user_id)
        updates == UpdatesOf(update_data)
    IN  /\ object_id \in DOMAIN coll
        /\ DOMAIN updates # {}
        /\ create_user_indexes(coll, object_id, Merge(coll[object_id], updates).username,
                               Merge(coll[object_id], updates).email)

\* An update that stamps updated_at also when no field is left to set.
UpdateAlwaysStamps(coll, user_id, update_data, t) ==
    LET object_id == _to_object_id(user_id)
        updates == UpdatesOf(update_data)
    IN  IF object_id = NoOid \/ object_id \notin DOMAIN coll
           \/ UpdateDuplicateKey(coll, user_id, update_data)
        THEN coll
        ELSE [coll EXCEPT ![object_id] =
                Merge(@, Merge(updates, [updated_at |-> ToBson(_utc_now(t))]))]

\* update_user: the users collection after the call.
update_user(coll, user_id, update_data, t) ==
    LET object_id == _to_object_id(user_id)
        updates == UpdatesOf(update_data)
    IN  IF object_id = NoOid \/ DOMAIN updates = {} \/ object_id \notin DOMAIN coll
           \/ UpdateDuplicateKey(coll, user_id, update_data)
        THEN coll
        ELSE [coll EXCEPT ![object_id] =
                Merge(@, Merge(updates, [updated_at |-> ToBson(_utc_now(t))]))]

\* update_user: the value it returns (EmptyDoc also when it raises).
UpdateUserReturn(coll, user_id, update_data, t) ==
    LET object_id == _to_object_id(user_id)
        after == update_user(coll, user_id, update_data, t)
    IN  IF object_id = NoOid \/ UpdateDuplicateKey(coll, user_id, update_data) THEN EmptyDoc
        ELSE IF DOMAIN UpdatesOf(update_data) = {} THEN get_user_by_id(coll, user_id)
        ELSE _serialize_user(Project(FindById(after, object_id), PUBLIC_USER_PROJECTION))

\* The update maps the user store is called with: empty, only None, protected
\* fields only, a new username, a new email, a new password hash.
UpdateInputs ==
    {[k \in {} |-> <<>>],
     [first_name |-> <<>>],
     [_id |-> <<MaxIds>>],
     [username |-> <<"bob">>],
     [hashed_password |-> <<_hash_password_for_now("pw2")>>]}

UpdateUser(user_id, update_data) ==
    /\ users' = update_user(users, user_id, update_data, now)
    /\ resp' = Returned("update_user", user_id, FALSE, update_data,
                        {UpdateUserReturn(users, user_id, update_data, now)})
    /\ UNCHANGED <<snapshots, now, nextId, creq, ing, nExchange, nDelete, nIngest, probe, dbvars>>

\* A UserUpdate body: every field of the model, <<>> where it is None.
UserUpdate(username, first_name, password) ==
    [username |-> username, first_name |-> first_name, last_name |-> <<>>,
     email |-> <<>>, password |-> password]

\* The bodies PUT /users/{user_id} is called with: all None, a new first name,
\* a new username, a new password.
RouteInputs ==
    {UserUpdate(<<>>, <<>>, <<>>), UserUpdate(<<>>, <<"Flo">>, <<>>),
     UserUpdate(<<"bob">>, <<>>, <<>>), UserUpdate(<<>>, <<>>, <<"pw2">>)}

\* payload.model_dump(exclude_none=True), the password replaced by its hash.
UpdatePayloadOf(payload) ==
    LET kept == {k \in DOMAIN payload : Len(payload[k]) > 0}
        keys == (kept \ {"password"})
                    \cup (IF "password" \in kept THEN {"hashed_password"} ELSE {})
    IN  [k \in keys |-> IF k = "hashed_password"
                        THEN <<_hash_password_for_now(payload.password[1])>>
                        ELSE payload[k]]

\* update_user_route: 422 for a body without a field, 409 for
\* DuplicateKeyError, 404 when update_user returns None.
UpdateUserRoute(user_id, payload) ==
    LET update_payload == UpdatePayloadOf(payload)
        updated == UpdateUserReturn(users, user_id, update_payload, now)
        call == Returned("update_user_route", user_id, FALSE, payload, {updated})
    IN  /\ IF DOMAIN update_payload = {}
           THEN /\ users' = users
                /\ resp' = [call EXCEPT !.docs = {}, !.status = HTTP_422_UNPROCESSABLE_ENTITY]
           ELSE IF UpdateDuplicateKey(users, user_id, update_payload)
           THEN /\ users' = users
                /\ resp' = [call EXCEPT !.docs = {}, !.status = HTTP_409_CONFLICT]
           ELSE /\ users' = update_user(users, user_id, update_payload, now)
                /\ resp' = [call EXCEPT !.status = IF DOMAIN updated = {}
                                                   THEN HTTP_404_NOT_FOUND ELSE HTTP_200_OK]
        /\ UNCHANGED <<snapshots, now, nextId, creq, ing, nExchange, nDelete, nIngest, probe, dbvars>>

\* --------------------------------------------------- DELETE /users/{user_id}
delete_user(coll, user_id) ==
    LET object_id == _to_object_id(user_id)
    IN  IF object_id = NoOid THEN coll
        ELSE [i \in DOMAIN coll \ {object_id} |-> coll[i]]

DeleteUser(user_id) ==
    /\ nDelete < MaxDeletes
    /\ nDelete' = nDelete + 1
    /\ users' = delete_user(users, user_id)
    /\ UNCHANGED <<snapshots, now, nextId, creq, ing, nExchange, nIngest, resp, probe, dbvars>>

\* ------------------------------------------------ GET /auth/spotify/exchange
\* spotify_exchange and spotify_exchange_from_redirect: the provider answers
\* the code with an error (nothing is stored) or with a token payload, which
\* save_user_spotify_tokens persists.
SpotifyExchange(user_id, token_payload, limit) ==
    /\ nExchange < limit
    /\ nExchange' = nExchange + 1
    /\ users' = save_user_spotify_tokens(users, user_id, token_payload, now)
    /\ resp' = Returned("save_user_spotify_tokens", user_id, FALSE, token_payload,
                        {SaveTokensReturn(users, user_id, token_payload, now)})
    /\ UNCHANGED <<snapshots, now, nextId, creq, ing, nDelete, nIngest, probe, dbvars>>

SpotifyExchangeRejected(limit) ==
    /\ nExchange < limit
    /\ nExchange' = nExchange + 1
    /\ resp' = NoResp
    /\ UNCHANGED <<users, snapshots, now, nextId, creq, ing, nDelete, nIngest, probe, dbvars>>

\* ------------------------------------------------- POST /auth/spotify/ingest
\* One entry of the run's log of upstream requests.
Call(path, token, ids, response) ==
    [path |-> path, token |-> token, ids |-> ids, response |-> response]

Min(a, b) == IF a <= b THEN a ELSE b

\* A track is modelled by its id, a number >= 1; 0 is an item without an id
\* (and a null entry of an audio-features answer).
TrackCounts == {0, 1, BatchSize, BatchSize + 1, MaxTracks}
TopTrackLists == {[k \in 1..n |-> k] : n \in TrackCounts} \cup {<<1, 0, 2>>}
SmallTrackLists == {<<>>, <<1, 0, 2>>}

\* [track.get("id") for track in top_tracks if track.get("id")]
TrackIdsOf(top_tracks) == SelectSeq(top_tracks, LAMBDA id : id # 0)

\* A slice one id too long: track_ids[i : i + 101].
ChunkIdsOneMore(track_ids, i) == SubSeq(track_ids, i + 1, Min(i + BatchSize + 1, Len(track_ids)))

\* track_ids[i : i + 100]
ChunkIds(track_ids, i) == SubSeq(track_ids, i + 1, Min(i + BatchSize, Len(track_ids)))

\* [f for f in features if f]
NonNull(features) == SelectSeq(features, LAMBDA f : f # 0)

\* The provider's answers to an audio-features request: one entry per id, in
\* order, null for the ids that are a multiple of one of `null_mods`.
FeatureAnswers(chunk_ids, null_mods) ==
    {[k \in 1..Len(chunk_ids) |-> IF chunk_ids[k] % m = 0 THEN 0 ELSE chunk_ids[k]] :
        m \in null_mods}

\* All entries null, every second one, every third one, none.
AllNullMods == {1, 2, 3, MaxTracks + 1}

Finish(status) == [ing EXCEPT !.pc = "done", !.status = status]

\* The checks with the expiry test moved before the test for missing
\* credentials.
ExpiryCheckedFirst(spotify_auth, t) ==
    LET access_token == Get(spotify_auth, "access_token")
        refresh_token == Get(spotify_auth, "refresh_token")
        expires_at == Get(spotify_auth, "expires_at")
    IN  IF DOMAIN spotify_auth = {}
        THEN [pc |-> "done", status |-> HTTP_404_NOT_FOUND]
        ELSE IF _is_expired(expires_at, t) /\ ~Truthy(refresh_token)
        THEN [pc |-> "done", status |-> HTTP_401_UNAUTHORIZED]
        ELSE IF ~Truthy(access_token) /\ ~Truthy(refresh_token)
        THEN [pc |-> "done", status |-> HTTP_400_BAD_REQUEST]
        ELSE IF _is_expired(expires_at, t)
        THEN [pc |-> "refresh", status |-> 0]
        ELSE IF ~Truthy(access_token)
        THEN [pc |-> "done", status |-> HTTP_401_UNAUTHORIZED]
        ELSE [pc |-> "top_tracks", status |-> 0]

\* The checks of spotify_ingest on the loaded auth, in the order of the code:
\* where the run goes next, and the status it ends with when it is rejected.
IngestPreconditions(spotify_auth, t) ==
    LET access_token == Get(spotify_auth, "access_token")
        refresh_token == Get(spotify_auth, "refresh_token")
        expires_at == Get(spotify_auth, "expires_at")
    IN  IF DOMAIN spotify_auth = {}
        THEN [pc |-> "done", status |-> HTTP_404_NOT_FOUND]
        ELSE IF ~Truthy(access_token) /\ ~Truthy(refresh_token)
        THEN [pc |-> "done", status |-> HTTP_400_BAD_REQUEST]
        ELSE IF _is_expired(expires_at, t)
        THEN IF ~Truthy(refresh_token)
             THEN [pc |-> "done", status |-> HTTP_401_UNAUTHORIZED]
             ELSE [pc |-> "refresh", status |-> 0]
        ELSE IF ~Truthy(access_token)
        THEN [pc |-> "done", status |-> HTTP_401_UNAUTHORIZED]
        ELSE [pc |-> "top_tracks", status |-> 0]

\* spotify_ingest from get_user_spotify_auth up to the refresh call or the first
\* fetch.
IngestLoadAuth(user_id, limit) ==
    /\ ing.pc \in {"idle", "done"}
    /\ nIngest < limit
    /\ nIngest' = nIngest + 1
    /\ LET spotify_auth == get_user_spotify_auth(users, user_id)
           access_token == Get(spotify_auth, "access_token")
           refresh_token == Get(spotify_auth, "refresh_token")
           linked == user_id \in DOMAIN users /\ "spotify" \in DOMAIN users[user_id]
           run == [IdleIngest EXCEPT !.user_id = user_id, !.access_token = access_token,
                                     !.refresh_token = refresh_token,
                                     !.linked = linked,
                                     !.auth = IF linked THEN users[user_id].spotify ELSE EmptyDoc,
                                     !.loaded_at = now,
                                     !.snaps_at_start = Len(snapshots)]
           verdict == IngestPreconditions(spotify_auth, now)
       IN  ing' = [run EXCEPT !.pc = verdict.pc, !.status = verdict.status]
    /\ UNCHANGED <<users, snapshots, now, nextId, creq, nExchange, nDelete, resp, probe, dbvars>>

\* _refresh_spotify_access_token: the provider rejects, or answers a payload.
IngestRefresh(payloads) ==
    /\ ing.pc = "refresh"
    /\ \/ \E status \in UpstreamErrors :
            ing' = [Finish(status) EXCEPT
                      !.calls = Append(@, Call("/api/token", ing.refresh_token, <<>>, <<>>))]
       \/ \E refreshed_payload \in payloads :
            ing' = [ing EXCEPT !.pc = "persist", !.payload = refreshed_payload,
                      !.issued = Get(refreshed_payload, "access_token"),
                      !.calls = Append(@, Call("/api/token", ing.refresh_token, <<>>, <<>>))]
    /\ UNCHANGED <<users, snapshots, now, nextId, creq, nExchange, nDelete, nIngest, resp, probe, dbvars>>

\* save_user_spotify_tokens(db, user_id, refreshed_payload), its result unused,
\* then access_token = refreshed_payload.get("access_token") and the last check.
IngestPersist ==
    /\ ing.pc = "persist"
    /\ users' = save_user_spotify_tokens(users, ing.user_id, ing.payload, now)
    /\ LET access_token == Get(ing.payload, "access_token")
           stored == Get(get_user_spotify_auth(users', ing.user_id), "access_token")
       IN  ing' = IF ~Truthy(access_token)
                  THEN [Finish(HTTP_401_UNAUTHORIZED) EXCEPT
                            !.access_token = access_token, !.persisted = stored,
                            !.refreshed = TRUE, !.payload = EmptyDoc]
                  ELSE [ing EXCEPT !.pc = "top_tracks",
                            !.access_token = access_token, !.persisted = stored,
                            !.refreshed = TRUE, !.payload = EmptyDoc]
    /\ UNCHANGED <<snapshots, now, nextId, creq, nExchange, nDelete, nIngest, resp, probe, dbvars>>

\* _spotify_get("/me/top/tracks", access_token, ...)
IngestTopTracks(track_lists) ==
    /\ ing.pc = "top_tracks"
    /\ \/ \E status \in UpstreamErrors :
            ing' = [Finish(status) EXCEPT
                      !.calls = Append(@, Call("/me/top/tracks", ing.access_token, <<>>, <<>>))]
       \/ \E items \in track_lists :
            ing' = [ing EXCEPT !.pc = "top_artists", !.top_tracks = items,
                      !.calls = Append(@, Call("/me/top/tracks", ing.access_token, <<>>, items))]
    /\ UNCHANGED <<users, snapshots, now, nextId, creq, nExchange, nDelete, nIngest, resp, probe, dbvars>>

\* _spotify_get("/me/top/artists", access_token, ...)
IngestTopArtists(item_lists) ==
    /\ ing.pc = "top_artists"
    /\ \/ \E status \in UpstreamErrors :
            ing' = [Finish(status) EXCEPT
                      !.calls = Append(@, Call("/me/top/artists", ing.access_token, <<>>, <<>>))]
       \/ \E items \in item_lists :
            ing' = [ing EXCEPT !.pc = "recently_played", !.top_artists = items,
                      !.calls = Append(@, Call("/me/top/artists", ing.access_token, <<>>, items))]
    /\ UNCHANGED <<users, snapshots, now, nextId, creq, nExchange, nDelete, nIngest, resp, probe, dbvars>>

\* _spotify_get("/me/player/recently-played", access_token, ...), then the
\* extraction of the track ids and the entry into the batch loop.
IngestRecentlyPlayed(item_lists) ==
    /\ ing.pc = "recently_played"
    /\ \/ \E status \in UpstreamErrors :
            ing' = [Finish(status) EXCEPT
                      !.calls = Append(@, Call("/me/player/recently-played", ing.access_token, <<>>, <<>>))]
       \/ \E items \in item_lists :
            LET track_ids == TrackIdsOf(ing.top_tracks)
            IN  ing' = [ing EXCEPT
                      !.pc = IF Len(track_ids) > 0 THEN "audio_features" ELSE "snapshot",
                      !.recently_played = items, !.track_ids = track_ids, !.i = 0,
                      !.calls = Append(@, Call("/me/player/recently-played", ing.access_token, <<>>, items))]
    /\ UNCHANGED <<users, snapshots, now, nextId, creq, nExchange, nDelete, nIngest, resp, probe, dbvars>>

\* One turn of `for i in range(0, len(track_ids), 100)`.
IngestAudioFeatures(null_mods) ==
    /\ ing.pc = "audio_features"
    /\ LET chunk_ids == ChunkIds(ing.track_ids, ing.i)
       IN  \/ \E status \in UpstreamErrors :
                 ing' = [Finish(status) EXCEPT
                           !.calls = Append(@, Call("/audio-features", ing.access_token, chunk_ids, <<>>))]
           \/ \E features \in FeatureAnswers(chunk_ids, null_mods) :
                 ing' = [ing EXCEPT
                           !.pc = IF ing.i + BatchSize < Len(ing.track_ids)
                                  THEN "audio_features" ELSE "snapshot",
                           !.i = ing.i + BatchSize,
                           !.audio_features = @ \o NonNull(features),
                           !.calls = Append(@, Call("/audio-features", ing.access_token, chunk_ids, features))]
    /\ UNCHANGED <<users, snapshots, now, nextId, creq, nExchange, nDelete, nIngest, resp, probe, dbvars>>

\* A snapshot store that keeps one snapshot per user, replacing the older one.
ReplaceUserSnapshot(coll, user_id, snapshot_payload, t) ==
    LET object_id == _to_object_id(user_id)
        doc == Merge([user_id |-> object_id, fetched_at |-> t], snapshot_payload)
        old == {k \in 1..Len(coll) : coll[k].user_id = object_id}
    IN  IF object_id = NoOid THEN coll
        ELSE IF old = {} THEN Append(coll, doc)
        ELSE [k \in 1..Len(coll) |-> IF k \in old THEN doc ELSE coll[k]]

\* create_spotify_ingestion_snapshot: the collection after the call.
create_spotify_ingestion_snapshot(coll, user_id, snapshot_payload, t) ==
    LET object_id == _to_object_id(user_id)
    IN  IF object_id = NoOid THEN coll
        ELSE Append(coll, Merge([user_id |-> object_id, fetched_at |-> t], snapshot_payload))

\* The insert of the snapshot and the route's answer.
IngestSnapshot ==
    /\ ing.pc = "snapshot"
    /\ snapshots' = create_spotify_ingestion_snapshot(snapshots, ing.user_id,
            [top_tracks |-> ing.top_tracks, top_artists |-> ing.top_artists,
             recently_played |-> ing.recently_played,
             audio_features |-> ing.audio_features, source |-> "spotify_api_v1"], now)
    /\ ing' = IF _to_object_id(ing.user_id) = NoOid
              THEN Finish(HTTP_404_NOT_FOUND)
              ELSE [Finish(HTTP_200_OK) EXCEPT !.snapshot_id = Len(snapshots')]
    /\ UNCHANGED <<users, now, nextId, creq, nExchange, nDelete, nIngest, resp, probe, dbvars>>

\* ----------------------------------------------------------- specification
\* POST /users by the requests `reqs`, signing up names of the given sets.
CreateUser(reqs, usernames, emails) ==
    \/ \E r \in reqs, username \in usernames, email \in emails :
            CreateLookupUsername(r, username, email)
    \/ \E r \in reqs : CreateLookupEmail(r)
    \/ \E r \in reqs : CreateInsert(r)
    \/ \E r \in reqs : CreateFind(r)

\* POST /auth/spotify/ingest, the provider answering from the given sets.
Ingest(limit, payloads, track_lists, item_lists, null_mods) ==
    \/ \E user_id \in UserIdStrings : IngestLoadAuth(user_id, limit)
    \/ IngestRefresh(payloads)
    \/ IngestPersist
    \/ IngestTopTracks(track_lists)
    \/ IngestTopArtists(item_lists)
    \/ IngestRecentlyPlayed(item_lists)
    \/ IngestAudioFeatures(null_mods)
    \/ IngestSnapshot

\* The ingestion pipeline over one account: sign-up, link, delete, ingest.
Next ==
    \/ Tick
    \/ CreateUser({1}, {"ann"}, {"a@x"})
    \/ \E user_id \in UserIdStrings : DeleteUser(user_id)
    \/ \E user_id \in UserIdStrings, token_payload \in ExchangePayloads :
            SpotifyExchange(user_id, token_payload, 1)
    \/ SpotifyExchangeRejected(1)
    \/ Ingest(MaxIngests, RefreshPayloads, SmallTrackLists, {<<1>>}, {2})

Spec == Init /\ [][Next]_vars

\* ------------------------------------------------- the user-store accessors
GetUserById(user_id) ==
    /\ resp' = Returned("get_user_by_id", user_id, FALSE, EmptyDoc,
                        {get_user_by_id(users, user_id)})
    /\ UNCHANGED <<users, snapshots, now, nextId, creq, ing, nExchange, nDelete, nIngest, probe, dbvars>>

GetUserByUsername(username, include_password_hash) ==
    /\ resp' = Returned("get_user_by_username", BadId, include_password_hash, EmptyDoc,
                        {get_user_by_username(users, username, include_password_hash)})
    /\ UNCHANGED <<users, snapshots, now, nextId, creq, ing, nExchange, nDelete, nIngest, probe, dbvars>>

GetUserByEmail(email, include_password_hash) ==
    /\ resp' = Returned("get_user_by_email", BadId, include_password_hash, EmptyDoc,
                        {get_user_by_email(users, email, include_password_hash)})
    /\ UNCHANGED <<users, snapshots, now, nextId, creq, ing, nExchange, nDelete, nIngest, probe, dbvars>>

\* list_users_route: nothing is returned (422) outside 1..500, else list_users.
ListUsers(limit) ==
    /\ resp' = Returned("list_users", BadId, FALSE, EmptyDoc,
                        IF limit < MinListLimit \/ limit > MaxListLimit THEN {}
                        ELSE list_users(users, limit))
    /\ UNCHANGED <<users, snapshots, now, nextId, creq, ing, nExchange, nDelete, nIngest, probe, dbvars>>

GetUserSpotifyAuth(user_id) ==
    /\ resp' = Returned("get_user_spotify_auth", user_id, FALSE, EmptyDoc,
                        {get_user_spotify_auth(users, user_id)})
    /\ UNCHANGED <<users, snapshots, now, nextId, creq, ing, nExchange, nDelete, nIngest, probe, dbvars>>

\* The writers of the users collection: concurrent sign-ups, renaming
\* updates and deletion.
RenameInputs == {[username |-> <<"bob">>], [email |-> <<"b@x">>]}

NextUsers ==
    \/ CreateUser(1..NumCreateReqs, Usernames, Emails)
    \/ \E user_id \in UserIdStrings : DeleteUser(user_id)
    \/ \E user_id \in UserIdStrings, update_data \in RenameInputs : UpdateUser(user_id, update_data)

SpecUsers == Init /\ [][NextUsers]_vars

\* The accessors of the user store, each with every argument it accepts, over
\* the records that sign-ups, updates and a linked account leave.
NextReads ==
    \/ CreateUser(1..NumCreateReqs, Usernames, Emails)
    \/ \E user_id \in UserIdStrings, update_data \in UpdateInputs : UpdateUser(user_id, update_data)
    \/ \E user_id \in UserIdStrings : SpotifyExchange(user_id, LinkPayload, 1)
    \/ \E user_id \in UserIdStrings : GetUserById(user_id)
    \/ \E username \in Usernames, include_password_hash \in BOOLEAN :
            GetUserByUsername(username, include_password_hash)
    \/ \E email \in Emails, include_password_hash \in BOOLEAN :
            GetUserByEmail(email, include_password_hash)
    \/ \E limit \in {MinListLimit - 1, MinListLimit, MaxListLimit, MaxListLimit + 1} :
            ListUsers(limit)
    \/ \E user_id \in UserIdStrings : GetUserSpotifyAuth(user_id)

SpecReads == Init /\ [][NextReads]_vars

\* The token lifecycle over one account: every shape of token payload, from
\* the code exchange and from the refresh of an ingestion run.
NextTokens ==
    \/ Tick
    \/ CreateUser({1}, {"ann"}, {"a@x"})
    \/ \E user_id \in {BadId, 1}, token_payload \in TokenPayloads :
            SpotifyExchange(user_id, token_payload, MaxExchanges)
    \/ SpotifyExchangeRejected(MaxExchanges)
    \/ \E user_id \in {BadId, 1} : DeleteUser(user_id)

SpecTokens == Init /\ [][NextTokens]_vars

\* The batching of the audio-feature requests: one linked account whose token
\* has not expired, top-track lists around the batch size, every answer.
NextBatch ==
    \/ CreateUser({1}, {"ann"}, {"a@x"})
    \/ SpotifyExchange(1, LinkPayload, 1)
    \/ IngestLoadAuth(1, 1)
    \/ IngestTopTracks(TopTrackLists)
    \/ IngestTopArtists({<<>>})
    \/ IngestRecentlyPlayed({<<>>})
    \/ IngestAudioFeatures(AllNullMods)
    \/ IngestSnapshot

SpecBatch == Init /\ [][NextBatch]_vars

\* Updates of one account over time: the store's update_user and the PUT
\* route, with maps that set a field and maps that set none.
NextUpdate ==
    \/ Tick
    \/ CreateUser({1}, {"ann"}, {"a@x"})
    \/ SpotifyExchange(1, LinkPayload, 1)
    \/ \E user_id \in {BadId, 1}, update_data \in UpdateInputs : UpdateUser(user_id, update_data)
    \/ \E user_id \in {BadId, 1}, payload \in RouteInputs : UpdateUserRoute(user_id, payload)

SpecUpdate == Init /\ [][NextUpdate]_vars

\* ------------------------------------------------------- core/database.py
AppVars == <<users, snapshots, now, nextId, creq, ing, nExchange, nDelete, nIngest, resp, probe>>

\* How an attempt to connect goes: the connection string or the database name
\* is missing, the ping raises, the ping succeeds.
ConnectOutcomes == {"no_config", "ping_fails", "ok"}

\* connect_to_mongo.
connect_to_mongo(outcome) ==
    /\ dbcall.attempts < MaxConnects
    /\ IF _database # NoHandle /\ _mongo_client # NoHandle
       THEN /\ dbcall' = [dbcall EXCEPT !.op = "connect_to_mongo", !.result = "handle",
                                        !.handle = _database]
            /\ UNCHANGED <<_mongo_client, _database>>
       ELSE IF outcome = "no_config"
       THEN /\ dbcall' = [dbcall EXCEPT !.op = "connect_to_mongo", !.result = "raised",
                                        !.handle = NoHandle]
            /\ UNCHANGED <<_mongo_client, _database>>
       ELSE /\ _mongo_client' = dbcall.attempts + 1
            /\ _database' = dbcall.attempts + 1
            /\ dbcall' = IF outcome = "ok"
                         THEN [op |-> "connect_to_mongo", result |-> "handle",
                               handle |-> dbcall.attempts + 1,
                               attempts |-> dbcall.attempts + 1, pinged |-> TRUE]
                         ELSE [op |-> "connect_to_mongo", result |-> "raised",
                               handle |-> NoHandle,
                               attempts |-> dbcall.attempts + 1, pinged |-> dbcall.pinged]
    /\ UNCHANGED AppVars

\* close_mongo_connection.
close_mongo_connection ==
    /\ _mongo_client' = NoHandle
    /\ _database' = NoHandle
    /\ dbcall' = [dbcall EXCEPT !.op = "close_mongo_connection", !.result = "",
                                !.handle = NoHandle, !.pinged = FALSE]
    /\ UNCHANGED AppVars

\* get_database (also what GET /health and every route's Depends call).
get_database ==
    /\ dbcall' = [dbcall EXCEPT !.op = "get_database",
                                !.result = IF _database = NoHandle THEN "raised" ELSE "handle",
                                !.handle = _database]
    /\ UNCHANGED <<_mongo_client, _database>>
    /\ UNCHANGED AppVars

\* A sign-up request is served when its Depends(get_database) does not raise.
ServedCreateUser == _database # NoHandle /\ CreateUser({1}, Usernames, {"a@x"})

\* The lifecycle of the handle, with sign-up requests served meanwhile.
NextDb ==
    \/ \E outcome \in ConnectOutcomes : connect_to_mongo(outcome)
    \/ close_mongo_connection
    \/ get_database
    \/ ServedCreateUser

SpecDb == Init /\ [][NextDb]_vars

\* ------------------------------------------------------------- _is_expired
\* The expiry values _is_expired is asked about: None, strings that are no
\* timestamp, ISO strings with and without offset, datetimes naive and aware,
\* numbers.
IsoSuffixes == {"", "Z", "+00:00", "+01:00", "-01:00", "+junk"}
ExpiryInputs ==
    {JNull, JStr(""), JStr("tomorrow"), JInt(0), JInt(MaxTime + 1)}
        \cup {JIso(wall, suffix) : wall \in 0..(MaxTime + 1), suffix \in IsoSuffixes}
        \cup {JDate(wall, tz) : wall \in 0..(MaxTime + 1), tz \in IsoOffsets}

InitExpiry ==
    /\ users = [i \in {} |-> EmptyDoc]
    /\ snapshots = <<>>
    /\ now = 0
    /\ nextId = 1
    /\ creq = [r \in 1..NumCreateReqs |-> IdleCreate]
    /\ ing = IdleIngest
    /\ nExchange = 0
    /\ nDelete = 0
    /\ nIngest = 0
    /\ resp = NoResp
    /\ probe \in {[NoProbe EXCEPT !.expires_at = v] : v \in ExpiryInputs}
    /\ _mongo_client = NoHandle
    /\ _database = NoHandle
    /\ dbcall = NoDbCall

\* _is_expired(expires_at) at the current instant.
IsExpiredCall ==
    /\ probe' = [probe EXCEPT !.asked = TRUE, !.at = now,
                              !.result = _is_expired(probe.expires_at, now)]
    /\ UNCHANGED <<users, snapshots, now, nextId, creq, ing, nExchange, nDelete, nIngest, resp, dbvars>>

NextExpiry == Tick \/ IsExpiredCall

SpecExpiry == InitExpiry /\ [][NextExpiry]_vars

\* ------------------------------------------------------------------ claims
\* A token is stored under `key`: present, not null, not empty.
HasToken(doc, key) == key \in DOMAIN doc /\ doc[key].kind = "str" /\ doc[key].s # ""

\* The stored expiry of `doc` is missing or not after the instant t.
StoredExpired(doc, t) == "expires_at" \notin DOMAIN doc \/ doc.expires_at.n <= t

\* The run in flight wrote no snapshot.
NoSnapshotWritten == Len(snapshots) = ing.snaps_at_start

\* The positions of the refresh calls in the run's log of upstream requests.
RefreshCallIdx == {k \in 1..Len(ing.calls) : ing.calls[k].path = "/api/token"}

\* The run in flight loaded an expired access token and a refresh token.
RunRefreshes ==
    /\ ing.pc # "idle"
    /\ ing.linked
    /\ StoredExpired(ing.auth, ing.loaded_at)
    /\ HasToken(ing.auth, "refresh_token")

\* C2: an ingest run that loads an expired access token and a stored refresh
\* token makes exactly one refresh call, as its first upstream call; when any
\* later upstream call (a fetch, an audio-feature batch) is made, the refreshed
\* access token has been stored on the user record, and each such call carries
\* the refreshed token.
C2_OneRefreshPersistedBeforeFetches ==
    RunRefreshes =>
        /\ Cardinality(RefreshCallIdx) = (IF ing.pc = "refresh" THEN 0 ELSE 1)
        /\ ing.calls # <<>> => ing.calls[1].path = "/api/token"
        /\ \A k \in 2..Len(ing.calls) :
              /\ Truthy(ing.issued)
              /\ ing.calls[k].token = ing.issued
              /\ ing.persisted = ing.issued

\* The four rejections of C4, each excluding the ones before it.
C4_NotLinked == ~ing.linked
C4_MissingCredentials ==
    ing.linked /\ ~HasToken(ing.auth, "access_token") /\ ~HasToken(ing.auth, "refresh_token")
C4_ExpiredNoRefresh ==
    /\ ing.linked /\ ~C4_MissingCredentials
    /\ StoredExpired(ing.auth, ing.loaded_at)
    /\ ~HasToken(ing.auth, "refresh_token")
C4_NoAccessToken ==
    /\ ing.linked /\ ~C4_MissingCredentials /\ ~C4_ExpiredNoRefresh
    /\ IF StoredExpired(ing.auth, ing.loaded_at)
       THEN ing.refreshed /\ ~Truthy(ing.issued)
       ELSE ~HasToken(ing.auth, "access_token")

RejectedWith(status) == ing.pc = "done" /\ ing.status = status /\ NoSnapshotWritten

\* C4: ingest rejects in the order 404 (no stored auth), 400 (no token at all),
\* 401 (expired, no refresh token), 401 (no usable access token after the
\* optional refresh); the first three before any upstream call, the fourth
\* after the refresh call at most; none writes a snapshot; a run that none of
\* the four applies to is not rejected with their statuses.
C4_RejectionOrder ==
    ing.pc # "idle" =>
        /\ C4_NotLinked => RejectedWith(HTTP_404_NOT_FOUND) /\ ing.calls = <<>>
        /\ C4_MissingCredentials => RejectedWith(HTTP_400_BAD_REQUEST) /\ ing.calls = <<>>
        /\ C4_ExpiredNoRefresh => RejectedWith(HTTP_401_UNAUTHORIZED) /\ ing.calls = <<>>
        /\ C4_NoAccessToken =>
              /\ RejectedWith(HTTP_401_UNAUTHORIZED)
              /\ \A k \in 1..Len(ing.calls) : k = 1 /\ ing.calls[k].path = "/api/token"
        /\ ~(C4_NotLinked \/ C4_MissingCredentials \/ C4_ExpiredNoRefresh \/ C4_NoAccessToken)
              => ing.status \notin {HTTP_404_NOT_FOUND, HTTP_400_BAD_REQUEST, HTTP_401_UNAUTHORIZED}

\* A run was rejected for want of an access token after its refresh call.
C4_Witness ==
    /\ C4_NoAccessToken /\ ing.refreshed
    /\ RejectedWith(HTTP_401_UNAUTHORIZED)
    /\ Len(ing.calls) = 1

\* C6, the state part: a run that answered success has appended exactly one
\* snapshot, whose id it returns; any other run has appended none.
C6_OnePerSuccess ==
    /\ (ing.pc = "done" /\ ing.status = HTTP_200_OK) =>
            Len(snapshots) = ing.snaps_at_start + 1 /\ ing.snapshot_id = Len(snapshots)
    /\ (ing.pc # "idle" /\ ~(ing.pc = "done" /\ ing.status = HTTP_200_OK)) => NoSnapshotWritten
    /\ Len(snapshots) <= nIngest

\* C6, the step part: no step changes or removes a snapshot, and only the
\* last step of a successful run adds one.
C6_AppendOnly ==
    /\ \A k \in 1..Len(snapshots) : k <= Len(snapshots') /\ snapshots'[k] = snapshots[k]
    /\ Len(snapshots') # Len(snapshots) =>
            /\ Len(snapshots') = Len(snapshots) + 1
            /\ ing.pc = "snapshot" /\ ing'.pc = "done" /\ ing'.status = HTTP_200_OK

\* C6: snapshots are created only by successful ingestion runs, one per run,
\* and are never modified or removed afterwards.
C6_SnapshotsOnlyBySuccessfulIngest == [](C6_OnePerSuccess) /\ [][C6_AppendOnly]_vars

\* After a successful run, a later run failed in its audio-feature batch and
\* the snapshot of the first is still the only one.
C6_Witness ==
    /\ Len(snapshots) = 1 /\ ing.snaps_at_start = 1
    /\ ing.pc = "done" /\ ing.status \in UpstreamErrors
    /\ ing.calls # <<>> /\ ing.calls[Len(ing.calls)].path = "/audio-features"

\* C7: whenever a snapshot is inserted, its user_id is the id of a record
\* that is in the users collection at that moment.
C7_SnapshotLinkedToExistingUser ==
    [][Len(snapshots') > Len(snapshots) =>
            snapshots'[Len(snapshots')].user_id \in DOMAIN users]_vars

\* The step is a call of save_user_spotify_tokens by an exchange route, or by
\* an ingestion run.
ExchangePersists == nExchange' # nExchange /\ resp'.op = "save_user_spotify_tokens"
IngestPersists == ing.pc = "persist" /\ ing'.pc # "persist"

\* The user and the payload of the call, and whether the user exists.
PersistUser == IF ExchangePersists THEN resp'.user_id ELSE ing.user_id
PersistPayload == IF ExchangePersists THEN resp'.token_payload ELSE ing.payload
PersistStep == (ExchangePersists \/ IngestPersists) /\ PersistUser \in DOMAIN users

\* The stored auth sub-record of a user, empty when there is none.
StoredAuth(coll, user_id) ==
    IF user_id \in DOMAIN coll /\ "spotify" \in DOMAIN coll[user_id]
    THEN coll[user_id].spotify ELSE EmptyDoc

\* C3: a persist of a payload without refresh_token (absent, null or empty)
\* leaves the stored refresh token as it was (also its absence); a persist of a
\* payload with a refresh_token stores that one.
C3_RefreshTokenPreserved ==
    [][PersistStep =>
          LET before == StoredAuth(users, PersistUser)
              after == StoredAuth(users', PersistUser)
          IN  IF HasToken(PersistPayload, "refresh_token")
              THEN /\ "refresh_token" \in DOMAIN after
                   /\ after.refresh_token = PersistPayload.refresh_token
              ELSE /\ ("refresh_token" \in DOMAIN after) = ("refresh_token" \in DOMAIN before)
                   /\ "refresh_token" \in DOMAIN before =>
                          after.refresh_token = before.refresh_token]_vars

\* The second exchange brought an access token and no refresh token, and the
\* refresh token of the first is still stored beside the new access token.
C3_Witness ==
    /\ nExchange = 2
    /\ resp.op = "save_user_spotify_tokens" /\ resp.docs # {}
    /\ ~HasToken(resp.token_payload, "refresh_token")
    /\ HasToken(resp.token_payload, "access_token")
    /\ HasToken(StoredAuth(users, resp.user_id), "refresh_token")
    /\ Get(StoredAuth(users, resp.user_id), "access_token") = resp.token_payload.access_token

\* The expires_in of a payload is a number > 0.
PositiveExpiresIn(token_payload) ==
    /\ "expires_in" \in DOMAIN token_payload
    /\ token_payload.expires_in.kind = "int"
    /\ token_payload.expires_in.n > 0

\* C5: a persist stores the expiry now + expires_in when the payload's
\* expires_in is > 0, and otherwise leaves the stored auth sub-record without
\* expiry, whatever was stored before.
C5_ExpirySetOrUnset ==
    [][PersistStep =>
          LET after == StoredAuth(users', PersistUser)
          IN  IF PositiveExpiresIn(PersistPayload)
              THEN /\ "expires_at" \in DOMAIN after
                   /\ after.expires_at.n = now + PersistPayload.expires_in.n
              ELSE "expires_at" \notin DOMAIN after]_vars

\* A record with this username, or with this username or email, is stored.
UsernameTaken(r) == \E i \in DOMAIN users : users[i].username = creq'[r].username
EmailTaken(r) == \E i \in DOMAIN users : users[i].email = creq[r].email
NameOrEmailTaken(r) ==
    \E i \in DOMAIN users :
        users[i].username = creq'[r].username \/ users[i].email = creq'[r].email

\* C1, the state part: no two records share a username or an email, and a
\* finished sign-up ended with 201 or 409 unless a delete took its record away.
C1_Unique ==
    /\ \A i, j \in DOMAIN users :
          i # j => users[i].username # users[j].username /\ users[i].email # users[j].email
    /\ \A r \in DOMAIN creq : creq[r].pc = "done" =>
          \/ creq[r].status \in {HTTP_201_CREATED, HTTP_409_CONFLICT}
          \/ creq[r].status = HTTP_500_INTERNAL_SERVER_ERROR /\ nDelete > 0

\* C1, the step part: a request that meets a stored record with its username or
\* email, at a pre-flight lookup or at the insert, ends with 409 and stores
\* nothing; a request stores its user only when no stored record has its
\* username or email; no request ends with 409 without such a record.
C1_Step ==
    \A r \in DOMAIN creq :
        /\ (creq[r].pc = "idle" /\ creq'[r].pc # "idle" /\ UsernameTaken(r)) =>
              creq'[r].status = HTTP_409_CONFLICT /\ users' = users
        /\ (creq[r].pc = "lookup_email" /\ creq'[r].pc # "lookup_email" /\ EmailTaken(r)) =>
              creq'[r].status = HTTP_409_CONFLICT /\ users' = users
        /\ (creq[r].pc = "insert" /\ creq'[r].pc # "insert") =>
              IF NameOrEmailTaken(r)
              THEN creq'[r].status = HTTP_409_CONFLICT /\ users' = users
              ELSE /\ creq'[r].oid \in DOMAIN users' \ DOMAIN users
                   /\ users'[creq'[r].oid].username = creq[r].username
                   /\ users'[creq'[r].oid].email = creq[r].email
        /\ (creq[r].status # HTTP_409_CONFLICT /\ creq'[r].status = HTTP_409_CONFLICT) =>
              NameOrEmailTaken(r)
        /\ DOMAIN users' \ DOMAIN users # {} => \E q \in DOMAIN creq : creq[q].pc = "insert"

\* C1: in any interleaving of sign-up requests, of requests with the same
\* username or email at most one stores a user and the others end with
\* Conflict (409), by the pre-flight lookup or by the unique index; no state
\* of the users collection holds two records with one username or one email.
C1_UniqueUsersLosersConflict == [](C1_Unique) /\ [][C1_Step]_vars

\* Two requests with the same username passed the pre-flight lookups together;
\* one stored its user and the unique index turned the other into a Conflict.
C1_Witness ==
    \E r1, r2 \in DOMAIN creq :
        /\ r1 # r2 /\ creq[r1].username = creq[r2].username
        /\ creq[r1].pc = "done" /\ creq[r1].status = HTTP_201_CREATED
        /\ creq[r2].pc = "done" /\ creq[r2].status = HTTP_409_CONFLICT
        /\ creq[r2].hit = "index"

\* Every document an accessor has returned: the last accessor call and the
\* answers of the sign-up requests.
ReturnedDocs == resp.docs \cup {creq[r].resp : r \in DOMAIN creq}

\* C8 as claimed: no accessor, with any argument, returns a document that
\* has a hashed_password field.
C8_NoAccessorReturnsHash ==
    \A d \in ReturnedDocs : "hashed_password" \notin DOMAIN d

\* C8 as amended: a returned document has a hashed_password field exactly when
\* it comes from get_user_by_username or get_user_by_email called with
\* include_password_hash = True; every other accessor call returns none.
C8_HashOnlyWhenAskedFor ==
    /\ \A r \in DOMAIN creq : "hashed_password" \notin DOMAIN creq[r].resp
    /\ \A d \in resp.docs :
          "hashed_password" \in DOMAIN d <=>
              /\ resp.include_password_hash
              /\ resp.op \in {"get_user_by_username", "get_user_by_email"}
    /\ resp.op \notin {"get_user_by_username", "get_user_by_email"} => ~resp.include_password_hash

\* A user with a stored hash was read by username without the flag.
C8_Witness ==
    /\ resp.op = "get_user_by_username" /\ ~resp.include_password_hash
    /\ \E d \in resp.docs :
          /\ d["_id"] \in DOMAIN users
          /\ "hashed_password" \in DOMAIN users[d["_id"]]
          /\ d.username = users[d["_id"]].username

\* What an expiry value denotes, by C9: an instant when it is a datetime or
\* an ISO string with no offset, Z or a valid offset; the wall clock of a value
\* without offset is UTC.
DenotesInstant(v) ==
    \/ v.kind = "datetime"
    \/ v.kind = "isostr" /\ v.s \in {"", "Z", "+00:00", "+01:00", "-01:00"}
HoursEast(tz) == IF tz = "+01:00" THEN 1 ELSE IF tz = "-01:00" THEN 0 - 1 ELSE 0
InstantOf(v) == v.n - HoursEast(v.s)

\* C9: _is_expired answers false exactly for a value that denotes an instant
\* strictly after the current UTC instant, and true for everything else:
\* missing, unparseable, of another type, equal to now, past.
C9_ExpiredUnlessStrictlyFuture ==
    probe.asked =>
        (probe.result = FALSE <=>
            (DenotesInstant(probe.expires_at) /\ InstantOf(probe.expires_at) > probe.at))

\* A naive datetime equal to the current instant was found expired.
C9_Witness ==
    /\ probe.asked /\ probe.at > 0
    /\ probe.expires_at = JDate(probe.at, "")
    /\ probe.result = TRUE

\* The audio-feature requests in the run's log, in request order.
BatchCalls == SelectSeq(ing.calls, LAMBDA c : c.path = "/audio-features")

\* The answers of the first k batches, nulls removed, concatenated.
RECURSIVE CollectedUpTo(_)
CollectedUpTo(k) ==
    IF k = 0 THEN <<>>
    ELSE CollectedUpTo(k - 1) \o SelectSeq(BatchCalls[k].response, LAMBDA f : f # 0)

\* The run has reached the batch loop; its last request may have failed.
InBatches ==
    \/ ing.pc \in {"audio_features", "snapshot"}
    \/ ing.pc = "done" /\ (ing.status = HTTP_200_OK \/ Len(BatchCalls) > 0)
LastBatchFailed == ing.pc = "done" /\ ing.status \in UpstreamErrors

\* C10: the k-th audio-feature request carries the ids 100(k-1)+1 .. 100k of
\* the extracted list (at most 100, never none), the loop ends after
\* ceil(n/100) requests, and the collected list is the concatenation of the
\* answers so far with their null entries removed.
C10_BatchesOfAtMost100 ==
    InBatches =>
        LET n == Len(ing.track_ids)
            batches == (n + BatchSize - 1) \div BatchSize
        IN  /\ \A k \in 1..Len(BatchCalls) :
                  /\ BatchCalls[k].ids =
                        SubSeq(ing.track_ids, BatchSize * (k - 1) + 1,
                               IF BatchSize * k < n THEN BatchSize * k ELSE n)
                  /\ Len(BatchCalls[k].ids) \in 1..BatchSize
            /\ Len(BatchCalls) <= batches
            /\ (ing.pc = "snapshot" \/ (ing.pc = "done" /\ ~LastBatchFailed)) => Len(BatchCalls) = batches
            /\ ing.pc = "audio_features" => Len(BatchCalls) < batches
            /\ ing.audio_features =
                  CollectedUpTo(IF LastBatchFailed THEN Len(BatchCalls) - 1 ELSE Len(BatchCalls))

\* MaxTracks ids went out in three requests of 100, 100 and the rest, and the
\* answers had nulls that the collected list lacks.
C10_Witness ==
    /\ ing.pc = "done" /\ ing.status = HTTP_200_OK
    /\ Len(ing.track_ids) = MaxTracks
    /\ Len(BatchCalls) = 3
    /\ Len(BatchCalls[1].ids) = BatchSize /\ Len(BatchCalls[2].ids) = BatchSize
    /\ Len(BatchCalls[3].ids) = MaxTracks - 2 * BatchSize
    /\ Len(ing.audio_features) < MaxTracks
    /\ Len(ing.audio_features) > 0

\* Every value of an update map is None (so also the empty map).
OnlyNulls(update_data) == \A k \in DOMAIN update_data : Len(update_data[k]) = 0

\* The step is a call of update_user, or of the PUT route, for an existing
\* user with a map that is empty or holds only None.
NoOpUpdateCall(op) ==
    /\ resp' # resp
    /\ resp'.op = op
    /\ OnlyNulls(resp'.token_payload)
    /\ resp'.user_id \in DOMAIN users

\* The document d is the stored record of user_id as the store returns it:
\* every stored field but the password hash and the auth sub-record.
IsPublicViewOf(d, user_id) ==
    /\ DOMAIN d = DOMAIN users[user_id] \ {"hashed_password", "spotify"}
    /\ \A k \in DOMAIN d : d[k] = users[user_id][k]

\* C11: update_user on an existing user with a map that is empty or holds only
\* None returns the existing record and writes nothing: the users collection,
\* updated_at included, is after the call what it was before; a body of the
\* PUT route without a field writes nothing either.
C11_NoOpUpdateWritesNothing ==
    [][/\ NoOpUpdateCall("update_user") =>
              /\ users' = users
              /\ \E d \in resp'.docs : resp'.docs = {d} /\ IsPublicViewOf(d, resp'.user_id)
       /\ NoOpUpdateCall("update_user_route") => users' = users]_vars

\* update_user was called with {first_name: None} for a record last written
\* before now, and returned it with the updated_at it had.
C11_Witness ==
    /\ resp.op = "update_user"
    /\ DOMAIN resp.token_payload = {"first_name"} /\ OnlyNulls(resp.token_payload)
    /\ resp.user_id \in DOMAIN users
    /\ users[resp.user_id].updated_at.n < now
    /\ \E d \in resp.docs : d.updated_at = users[resp.user_id].updated_at

\* C12: get_database returns a handle only when a connect_to_mongo has
\* completed with a successful ping and no close_mongo_connection has run
\* since, and raises in every other state; a connect_to_mongo that returns a
\* handle returns one whose ping succeeded.
C12_HandleOnlyWhileInitialized ==
    /\ dbcall.op = "get_database" => (dbcall.result = "handle" <=> dbcall.pinged)
    /\ (dbcall.op = "connect_to_mongo" /\ dbcall.result = "handle") => dbcall.pinged

\* C13: the stored access token and the stored expiry come from one payload.
\* A persist replaces exactly the fields its payload supplies, so the pair
\* stays matched only if no persist that leaves both stored supplied one of
\* them without the other: whenever the auth sub-record holds an access token
\* and an expiry after a persist, the payload supplied both or neither.
C13_TokenAndExpiryFromOnePayload ==
    [][PersistStep =>
          LET after == StoredAuth(users', PersistUser)
          IN  ("access_token" \in DOMAIN after /\ "expires_at" \in DOMAIN after) =>
                  ("access_token" \in DOMAIN PersistPayload
                        /\ PersistPayload.access_token.kind # "null"
                     <=> PositiveExpiresIn(PersistPayload))]_vars

====
